---- MODULE Spec2Model ----
(***************************************************************************)
(* State-machine model of stable_baselines3/common/distributions.py:       *)
(* one distribution instance (`self`), the result of the last call made on *)
(* it (`ret`), and the caller's dist_kwargs mapping handed to the factory. *)
(* Two history variables: `bound_params`, the parameters of the last       *)
(* proba_distribution call that returned, and `binds`, the number of       *)
(* binding calls made on the instance.                                     *)
(*                                                                         *)
(* Tensors are sequences: a [batch, n] tensor is a sequence of rows, a row *)
(* a sequence of integers.  Action indices are zero-based as in the code;  *)
(* index a of a row r is r[a + 1].  Real-valued results that have no       *)
(* integer value (log-softmax, Gaussian densities, exp, tanh) are kept as  *)
(* terms: a tuple naming the function and its arguments, so two results    *)
(* are equal in the model only when they are computed from equal inputs.   *)
(* Optional values: None is the empty tuple, Some(x) the one-tuple <<x>>.  *)
(***************************************************************************)
EXTENDS Integers, Sequences, FiniteSets, TLC

VARIABLES self, ret, dist_kwargs, bound_params, binds

vars == <<self, ret, dist_kwargs, bound_params, binds>>

(***************************************************************************)
(* Bounds of the model.                                                    *)
(***************************************************************************)
\* Largest number of exploration matrices sample_weights pre-samples.
MaxWeightBatch == 2

\* The binding calls a behaviour makes on one instance: a first and a second.
BindCalls == {1, 2}

\* Batch sizes (numbers of rows) of the parameter tensors.
BatchSizes == {1, 2}

\* Zero-based action indices of a Discrete(n) space.
ActionIdx == {0, 1}

\* Values a raw logit takes: one below zero, one above.
LogitVals == {-1, 2}

\* Values the invalid-action layer returns per position (flagged iff > 0).
IndicatorVals == {0, 1}

\* Values of a Bernoulli logit: below, at and above probability one half.
BernoulliLogitVals == {-1, 0, 2}

\* Cardinality lists a MultiCategoricalDistribution is constructed with.
ActionDimsChoices == {<<2>>, <<1, 2>>}

\* Components of a continuous action, and latent features of gSDE.
ActionComponents == {1}

LatentFeatures == {1}

\* Values of a mean action, of a log-std entry, of a latent feature.
MeanVals == {0, 1}

LogStdVals == {-1, 1}

\* Values of a gSDE mean action.
SdeMeanVals == {1}

\* Values of a gSDE log-std entry: log_std_init's default.
SdeLogStdVals == {-2}

LatentVals == {1, 2}

\* Values a draw of an exploration weight takes, and values of the standard
\* normal noise of a reparameterised Gaussian draw.
WeightVals == {-1, 1}

EpsVals == {-1, 1}

(***************************************************************************)
(* Optional values and small helpers.                                      *)
(***************************************************************************)
None == <<>>

Some(x) == <<x>>

IsNone(o) == Len(o) = 0

Val(o) == o[1]

Range(f) == {f[i] : i \in DOMAIN f}

SetMin(S) == CHOOSE m \in S : \A x \in S : m <= x

SetMax(S) == CHOOSE m \in S : \A x \in S : m >= x

\* All [batch, n] tensors with batch in `batches` and rows drawn from `rows`.
Batches(batches, rows) == UNION {[1..b -> rows] : b \in batches}

NActions == Cardinality(ActionIdx)

LogitRows == [1..NActions -> LogitVals]

IndicatorRows == [1..NActions -> IndicatorVals]

\* A call's outcome: the instance afterwards and what the call gave back.
Returned(s, v) == [self |-> s, ok |-> TRUE, val |-> Some(v), exc |-> "none"]

ReturnedNone(s) == [self |-> s, ok |-> TRUE, val |-> None, exc |-> "none"]

Raised(s, e) == [self |-> s, ok |-> FALSE, val |-> None, exc |-> e]

(***************************************************************************)
(* torch.distributions.Categorical and the tensor operations used on it.   *)
(***************************************************************************)
\* Categorical(logits=...) normalises each row (logits - logsumexp): rows
\* that differ by a constant are the same distribution.  The model keeps the
\* representative whose maximum is 0.
NormalizeRow(row) == [i \in DOMAIN row |-> row[i] - SetMax(Range(row))]

Categorical(logits) ==
    [kind |-> "Categorical",
     logits |-> [b \in DOMAIN logits |-> NormalizeRow(logits[b])]]

\* A faulty argmax: the last index of the largest logit.
ArgmaxRowLast(row) ==
    SetMax({i \in DOMAIN row : \A j \in DOMAIN row : row[j] <= row[i]}) - 1

\* th.argmax(probs, dim=1): softmax is monotone, so the index of the largest
\* logit; the first such index on ties.
ArgmaxRow(row) ==
    SetMin({i \in DOMAIN row : \A j \in DOMAIN row : row[j] <= row[i]}) - 1

Argmax(d) == [b \in DOMAIN d.logits |-> ArgmaxRow(d.logits[b])]

\* Categorical.log_prob(actions): per row, the normalised log-probability of
\* the row's action, as a term.
CatLogProb(d, actions) ==
    [b \in DOMAIN d.logits |-> <<"log_softmax", d.logits[b], actions[b]>>]

CatEntropy(d) == [b \in DOMAIN d.logits |-> <<"entropy", d.logits[b]>>]

\* Categorical.sample(): one index per row; every index has positive
\* probability under finite logits, so every index can be drawn.
CatSamples(d) == [DOMAIN d.logits -> 0..(Len(d.logits[1]) - 1)]

(***************************************************************************)
(* Instances.                                                              *)
(***************************************************************************)
\* Every attribute any class sets, None until assigned.
BlankInstance ==
    [cls |-> "none",
     distribution |-> None,
     sample_distribution |-> None,
     original_action_logits |-> None,
     invalid_actions |-> None,
     invalid_logit_value |-> None,
     new_action_logits |-> None,
     action_dims |-> None,
     gaussian_actions |-> None,
     bijector |-> FALSE,
     latent_sde |-> None,
     weights_dist |-> None,
     exploration_mat |-> None,
     exploration_matrices |-> None]

\* Distribution.__init__
DistributionInit(c) == [BlankInstance EXCEPT !.cls = c]

\* CategoricalDistribution.__init__: the constructor raises unconditionally.
CategoricalDistributionInit == Raised(BlankInstance, "Exception")

\* CategoricalDistributionLimitedActions.__init__
LimitedActionsInit(get_invalid_actions_layer_obj) ==
    IF get_invalid_actions_layer_obj = "None"
    THEN Raised(BlankInstance, "Exception")
    ELSE ReturnedNone(DistributionInit("CategoricalDistributionLimitedActions"))

\* CategoricalDistributionLimitedActions_Manual.__init__
LimitedActionsManualInit(get_valid_actions) ==
    IF get_valid_actions = "None"
    THEN Raised(BlankInstance, "Exception")
    ELSE ReturnedNone(
             DistributionInit("CategoricalDistributionLimitedActions_Manual"))

(***************************************************************************)
(* Masked categorical distributions.                                       *)
(***************************************************************************)
\* Margin of CategoricalDistributionLimitedActions.proba_distribution.
LimitedMargin == 10

\* Margin of CategoricalDistributionLimitedActions_Manual.proba_distribution.
ManualMargin == 100

\* action_logits.min(): the smallest entry of the whole tensor.
TensorMin(t) == SetMin(UNION {Range(t[b]) : b \in DOMAIN t})

\* A faulty invalid_logit_value: the margin is added, not subtracted.
InvalidLogitValuePlusMargin(action_logits, margin) ==
    TensorMin(action_logits) + margin

\* A faulty invalid_logit_value: the floor at -margin is missing.
InvalidLogitValueNoFloor(action_logits, margin) ==
    TensorMin(action_logits) - margin

\* invalid_logit_value = action_logits.min() - margin, replaced by -margin
\* when it is >= -margin.
InvalidLogitValue(action_logits, margin) ==
    LET v == TensorMin(action_logits) - margin
    IN  IF v >= -margin THEN -margin ELSE v

\* invalid_actions = invalid_actions_float > 0.0
InvalidFromLayer(layer_out) ==
    [b \in DOMAIN layer_out |->
        [i \in DOMAIN layer_out[b] |-> layer_out[b][i] > 0]]

\* all_valid_actions == 0
InvalidFromValid(all_valid_actions) ==
    [b \in DOMAIN all_valid_actions |->
        [i \in DOMAIN all_valid_actions[b] |-> all_valid_actions[b][i] = 0]]

\* A faulty overwrite: the logits are left as they are.
OverwriteNothing(action_logits, invalid, value) == action_logits

\* new_action_logits[invalid_actions] = invalid_logit_value, and
\* th.where(all_valid_actions == 0, invalid_logit_value, action_logits).
Overwrite(action_logits, invalid, value) ==
    [b \in DOMAIN action_logits |->
        [i \in DOMAIN action_logits[b] |->
            IF invalid[b][i] THEN value ELSE action_logits[b][i]]]

\* CategoricalDistributionLimitedActions.proba_distribution.  The caller's
\* invalid-actions layer is opaque: an observation row is identified with
\* the indicator row the layer returns for it.  A mask whose row count is
\* not that of the logits makes the masked assignment raise IndexError,
\* after _original_action_logits and _invalid_actions were assigned.
LimitedProbaDistribution(s, p) ==
    IF IsNone(p.obs)
    THEN Raised(s, "Exception")
    ELSE LET invalid_actions == InvalidFromLayer(Val(p.obs))
             invalid_logit_value ==
                 InvalidLogitValue(p.action_logits, LimitedMargin)
             new_action_logits ==
                 Overwrite(p.action_logits, invalid_actions,
                           invalid_logit_value)
         IN  IF Len(invalid_actions) # Len(p.action_logits)
             THEN Raised(
                      [s EXCEPT !.original_action_logits = Some(p.action_logits),
                                !.invalid_actions = Some(invalid_actions)],
                      "IndexError")
             ELSE
             Returned(
                 [s EXCEPT !.original_action_logits = Some(p.action_logits),
                           !.invalid_actions = Some(invalid_actions),
                           !.invalid_logit_value = Some(invalid_logit_value),
                           !.new_action_logits = Some(new_action_logits),
                           !.distribution =
                               Some(Categorical(new_action_logits))],
                 "self")

\* CategoricalDistributionLimitedActions_Manual.proba_distribution past its
\* check of obs.  An observation row is identified with the valid-indicator
\* row the caller's get_valid_actions returns for it.  For an observation
\* batch of no rows th.stack gets an empty list and raises RuntimeError,
\* after self.distribution was assigned.
ManualBind(s, p) ==
    IF Len(Val(p.obs)) = 0
    THEN Raised([s EXCEPT !.distribution = Some(Categorical(p.action_logits))],
                "RuntimeError")
    ELSE LET invalid_logit_value ==
                 InvalidLogitValue(p.action_logits, ManualMargin)
             all_valid_actions == Val(p.obs)
             new_action_logits ==
                 Overwrite(p.action_logits,
                           InvalidFromValid(all_valid_actions),
                           invalid_logit_value)
         IN  Returned(
                 [s EXCEPT !.distribution = Some(Categorical(p.action_logits)),
                           !.sample_distribution =
                               Some(Categorical(new_action_logits))],
                 "self")

\* A faulty proba_distribution: obs is checked after self.distribution is
\* assigned.
ManualChecksObsLate(s, p) ==
    IF IsNone(p.obs)
    THEN Raised([s EXCEPT !.distribution = Some(Categorical(p.action_logits))],
                "Exception")
    ELSE ManualBind(s, p)

\* CategoricalDistributionLimitedActions_Manual.proba_distribution
ManualProbaDistribution(s, p) ==
    IF IsNone(p.obs) THEN Raised(s, "Exception") ELSE ManualBind(s, p)

\* CategoricalDistribution.proba_distribution
CategoricalProbaDistribution(s, p) ==
    Returned([s EXCEPT !.distribution = Some(Categorical(p.action_logits))],
             "self")

(***************************************************************************)
(* MultiCategorical and Bernoulli.                                         *)
(***************************************************************************)
RECURSIVE SeqSum(_)
SeqSum(q) == IF q = <<>> THEN 0 ELSE q[1] + SeqSum(Tail(q))

\* A faulty offset: every chunk starts at the head of the row.
ChunkStartAtHead(dims, k) == 0

\* Offset of chunk k in a row split by sizes `dims`.
ChunkStart(dims, k) == SeqSum(SubSeq(dims, 1, k - 1))

\* th.split(action_logits, tuple(action_dims), dim=1): chunk k of every row.
Split(action_logits, dims) ==
    [k \in DOMAIN dims |->
        [b \in DOMAIN action_logits |->
            SubSeq(action_logits[b], ChunkStart(dims, k) + 1,
                   ChunkStart(dims, k) + dims[k])]]

\* MultiCategoricalDistribution.__init__
MultiCategoricalInit(action_dims) ==
    ReturnedNone([DistributionInit("MultiCategoricalDistribution")
                     EXCEPT !.action_dims = Some(action_dims)])

\* MultiCategoricalDistribution.proba_distribution: th.split rejects a row
\* whose length is not the sum of the sizes, before anything is assigned.
MultiCategoricalProbaDistribution(s, p) ==
    LET dims == Val(s.action_dims)
    IN  IF \E b \in DOMAIN p.action_logits :
               Len(p.action_logits[b]) # SeqSum(dims)
        THEN Raised(s, "RuntimeError")
        ELSE Returned(
                 [s EXCEPT !.distribution =
                     Some([k \in DOMAIN dims |->
                              Categorical(Split(p.action_logits, dims)[k])])],
                 "self")

\* BernoulliDistribution.__init__
BernoulliInit ==
    ReturnedNone(DistributionInit("BernoulliDistribution"))

\* torch.distributions.Bernoulli(logits=...)
Bernoulli(logits) == [kind |-> "Bernoulli", logits |-> logits]

\* BernoulliDistribution.proba_distribution
BernoulliProbaDistribution(s, p) ==
    Returned([s EXCEPT !.distribution = Some(Bernoulli(p.action_logits))],
             "self")

(***************************************************************************)
(* Gaussian family.                                                        *)
(***************************************************************************)
\* torch.distributions.Normal(loc, scale)
Normal(loc, scale) == [kind |-> "Normal", loc |-> loc, scale |-> scale]

\* log_std.exp(), entry by entry.
Exp(x) == <<"exp", x>>

\* sum_independent_dims on a [batch, n] tensor: tensor.sum(dim=1).
sum_independent_dims(tensor) ==
    [b \in DOMAIN tensor |-> <<"sum", tensor[b]>>]

\* DiagGaussianDistribution.__init__ and SquashedDiagGaussianDistribution.__init__
DiagGaussianInit == ReturnedNone(DistributionInit("DiagGaussianDistribution"))

SquashedDiagGaussianInit ==
    ReturnedNone(DistributionInit("SquashedDiagGaussianDistribution"))

\* DiagGaussianDistribution.proba_distribution (inherited unchanged by the
\* squashed class): action_std = ones_like(mean_actions) * log_std.exp().
DiagGaussianProbaDistribution(s, p) ==
    LET action_std ==
            [b \in DOMAIN p.mean_actions |->
                [j \in DOMAIN p.mean_actions[b] |-> Exp(p.log_std[j])]]
    IN  Returned(
            [s EXCEPT !.distribution = Some(Normal(p.mean_actions, action_std))],
            "self")

\* Normal.log_prob, Normal.entropy and Normal.rsample, entry by entry.
NormalLogProb(d, x) ==
    [b \in DOMAIN d.loc |->
        [j \in DOMAIN d.loc[b] |->
            <<"normal_log_prob", x[b][j], d.loc[b][j], d.scale[b][j]>>]]

NormalEntropy(d) ==
    [b \in DOMAIN d.loc |->
        [j \in DOMAIN d.loc[b] |-> <<"normal_entropy", d.scale[b][j]>>]]

NormalRsample(d, eps) ==
    [b \in DOMAIN d.loc |->
        [j \in DOMAIN d.loc[b] |->
            <<"loc_plus_scale_times", d.loc[b][j], d.scale[b][j], eps[b][j]>>]]

\* The standard-normal draws of one rsample of a distribution shaped like d.
EpsDraws(d) == [DOMAIN d.loc -> [ActionComponents -> EpsVals]]

\* th.tanh / TanhBijector.forward, entry by entry.
Tanh(t) == [b \in DOMAIN t |-> [j \in DOMAIN t[b] |-> <<"tanh", t[b][j]>>]]

\* Floating-point numbers near the integers: <<"num", n, h>> is
\* n + h * eps / 2, where eps = th.finfo(dtype).eps is far below 1; floats
\* just below 1 are eps / 2 apart.  Such numbers are ordered by n, then by h.
Num(n, h) == <<"num", n, h>>

Less(x, y) == x[2] < y[2] \/ (x[2] = y[2] /\ x[3] < y[3])

\* -1.0 + eps and 1.0 - eps
ClampMin == Num(-1, 2)

ClampMax == Num(1, -2)

\* A faulty clamp: the input is passed on as it is.
ClampNothing(y, min, max) == y

\* y.clamp(min=..., max=...) of one entry.  An entry <<"tanh", x>> is the
\* tanh of a value of the model, all of magnitude far below the 9 or so at
\* which a float32 tanh reaches 1: it lies strictly between min and max.
Clamp(y, min, max) ==
    IF y[1] = "tanh" THEN y
    ELSE IF Less(y, min) THEN min ELSE IF Less(max, y) THEN max ELSE y

\* TanhBijector.atanh of one entry, 0.5 * (x.log1p() - (-x).log1p()), as a
\* term.
atanh(x) == <<"atanh", x>>

\* TanhBijector.inverse, entry by entry.
TanhInverse(y) ==
    [b \in DOMAIN y |->
        [j \in DOMAIN y[b] |-> atanh(Clamp(y[b][j], ClampMin, ClampMax))]]

(***************************************************************************)
(* State-dependent noise (gSDE).                                           *)
(***************************************************************************)
RECURSIVE SumOver(_, _)
SumOver(f, S) ==
    IF S = {} THEN 0
    ELSE LET x == CHOOSE y \in S : TRUE IN f[x] + SumOver(f, S \ {x})

\* One row of th.mm / th.bmm: row @ mat, mat of shape [features, actions].
RowTimesMatrix(row, mat) ==
    [j \in ActionComponents |->
        SumOver([l \in LatentFeatures |-> row[l] * mat[l][j]], LatentFeatures)]

\* StateDependentNoiseDistribution.__init__ with full_std, use_expln and
\* learn_features at their defaults (detach() changes no value;
\* latent_sde_dim, read only by the reduced-std path, is not kept).
StateDependentNoiseInit(squash_output) ==
    ReturnedNone([DistributionInit("StateDependentNoiseDistribution")
                     EXCEPT !.bijector = squash_output])

\* StateDependentNoiseDistribution.get_std on the default path
\* (use_expln false, full_std true): th.exp(log_std), entry by entry.
get_std(s, log_std) ==
    [l \in DOMAIN log_std |->
        [j \in DOMAIN log_std[l] |-> Exp(log_std[l][j])]]

\* The matrices one rsample of weights_dist can give.
WeightMatrices == [LatentFeatures -> [ActionComponents -> WeightVals]]

\* A faulty resample: only the batch of matrices is replaced.
sample_weights_batch_only(s, log_std, mat, mats) ==
    ReturnedNone([s EXCEPT !.exploration_matrices = Some(mats)])

\* StateDependentNoiseDistribution.sample_weights, given the two draws.
sample_weights(s, log_std, mat, mats) ==
    LET std == get_std(s, log_std)
        zeros == [l \in DOMAIN std |-> [j \in DOMAIN std[l] |-> 0]]
    IN  ReturnedNone([s EXCEPT !.weights_dist = Some(Normal(zeros, std)),
                               !.exploration_mat = Some(mat),
                               !.exploration_matrices = Some(mats)])

\* StateDependentNoiseDistribution.proba_distribution: the scale is
\* sqrt(mm(latent_sde ** 2, std ** 2) + epsilon), kept as a term of the
\* latent row and the std column.  th.mm raises RuntimeError when log_std
\* has not one row per latent feature, after _latent_sde was assigned.
SdeProbaDistribution(s, p) ==
    LET std == get_std(s, p.log_std)
        scale ==
            [b \in DOMAIN p.mean_actions |->
                [j \in DOMAIN p.mean_actions[b] |->
                    <<"sqrt_variance", p.latent_sde[b],
                      [l \in DOMAIN std |-> std[l][j]]>>]]
    IN  IF \E b \in DOMAIN p.latent_sde : Len(p.latent_sde[b]) # Len(p.log_std)
        THEN Raised([s EXCEPT !.latent_sde = Some(p.latent_sde)], "RuntimeError")
        ELSE Returned(
                 [s EXCEPT !.latent_sde = Some(p.latent_sde),
                           !.distribution = Some(Normal(p.mean_actions, scale))],
                 "self")

\* A faulty get_noise: the base matrix is used for every batch.
get_noise_base_only(s, latent_sde) ==
    IF IsNone(latent_sde) THEN Raised(s, "AttributeError")
    ELSE IF IsNone(s.exploration_mat) \/ IsNone(s.exploration_matrices)
         THEN Raised(s, "TypeError")
         ELSE Returned(s, [b \in DOMAIN Val(latent_sde) |->
                  RowTimesMatrix(Val(latent_sde)[b], Val(s.exploration_mat))])

\* A faulty get_noise: the base-matrix path reads the first pre-sampled
\* matrix instead of exploration_mat.
get_noise_first_of_batch(s, latent_sde) ==
    IF IsNone(latent_sde) THEN Raised(s, "AttributeError")
    ELSE IF IsNone(s.exploration_mat) \/ IsNone(s.exploration_matrices)
         THEN Raised(s, "TypeError")
         ELSE Returned(s, [b \in DOMAIN Val(latent_sde) |->
                  RowTimesMatrix(Val(latent_sde)[b],
                                 Val(s.exploration_matrices)[1])])

\* StateDependentNoiseDistribution.get_noise.  A None argument fails at
\* detach(); None matrices fail at len() or th.mm.
get_noise(s, latent_sde) ==
    IF IsNone(latent_sde) THEN Raised(s, "AttributeError")
    ELSE LET latent == Val(latent_sde)
         IN  IF Len(latent) = 1 \/ IsNone(s.exploration_matrices)
                \/ Len(latent) # Len(Val(s.exploration_matrices))
             THEN IF IsNone(s.exploration_mat) \/ IsNone(s.exploration_matrices)
                  THEN Raised(s, "TypeError")
                  ELSE Returned(s, [b \in DOMAIN latent |->
                           RowTimesMatrix(latent[b], Val(s.exploration_mat))])
             ELSE Returned(s, [b \in DOMAIN latent |->
                      RowTimesMatrix(latent[b], Val(s.exploration_matrices)[b])])

\* Row b of a tensor broadcast along the batch: a one-row tensor repeats
\* its row.
BroadcastRow(t, b) == t[IF Len(t) = 1 THEN 1 ELSE b]

\* Whether two batches broadcast against each other.
Broadcastable(x, y) == Len(x) = Len(y) \/ Len(x) = 1 \/ Len(y) = 1

\* distribution.mean + noise, broadcast along the batch.
TensorAdd(x, y) ==
    [b \in 1..(IF Len(x) >= Len(y) THEN Len(x) ELSE Len(y)) |->
        [j \in ActionComponents |->
            BroadcastRow(x, b)[j] + BroadcastRow(y, b)[j]]]

\* bijector.log_prob_correction, entry by entry.
log_prob_correction(t) ==
    [b \in DOMAIN t |-> [j \in DOMAIN t[b] |-> <<"log_1_minus_tanh2", t[b][j]>>]]

\* 1-D tensor minus 1-D tensor (log_prob -= correction).
Minus(x, y) == [b \in DOMAIN x |-> <<"minus", x[b], y[b]>>]

(***************************************************************************)
(* The Distribution interface, dispatched on the instance's class.  Every  *)
(* method gives the set of its possible outcomes (one per random draw).    *)
(***************************************************************************)
IsGaussianCls(c) ==
    c \in {"DiagGaussianDistribution", "SquashedDiagGaussianDistribution"}

IsCategoricalCls(c) ==
    c \in {"CategoricalDistribution", "CategoricalDistributionLimitedActions",
           "CategoricalDistributionLimitedActions_Manual"}

\* proba_distribution of the instance's class.
proba_distribution(s, p) ==
    CASE IsGaussianCls(s.cls) -> DiagGaussianProbaDistribution(s, p)
      [] s.cls = "CategoricalDistribution" -> CategoricalProbaDistribution(s, p)
      [] s.cls = "CategoricalDistributionLimitedActions" ->
             LimitedProbaDistribution(s, p)
      [] s.cls = "CategoricalDistributionLimitedActions_Manual" ->
             ManualProbaDistribution(s, p)
      [] s.cls = "MultiCategoricalDistribution" ->
             MultiCategoricalProbaDistribution(s, p)
      [] s.cls = "BernoulliDistribution" -> BernoulliProbaDistribution(s, p)
      [] s.cls = "StateDependentNoiseDistribution" -> SdeProbaDistribution(s, p)

\* The distribution the class's sample() and mode() read:
\* sample_distribution in the _Manual class, distribution elsewhere.
SamplingDistribution(s) ==
    IF s.cls = "CategoricalDistributionLimitedActions_Manual"
    THEN s.sample_distribution
    ELSE s.distribution

\* A faulty lookup: an unbound instance falls back to a uniform categorical.
LogProbDistributionWithDefault(s) ==
    IF IsNone(s.distribution)
    THEN Some(Categorical(<<[i \in 1..NActions |-> 0]>>))
    ELSE s.distribution

\* The distribution the class's log_prob() and entropy() read.
LogProbDistribution(s) == s.distribution

\* sample() of the instance's class.
sample(s) ==
    CASE s.cls = "CategoricalDistributionLimitedActions_Manual" ->
             \* `if True and logits[0][ret] < -9.5` takes the truth value of a
             \* tensor with one entry per row: a RuntimeError for batch > 1.
             IF IsNone(s.sample_distribution)
             THEN {Raised(s, "AttributeError")}
             ELSE IF Len(Val(s.sample_distribution).logits) > 1
                  THEN {Raised(s, "RuntimeError")}
                  ELSE {Returned(s, a) : a \in CatSamples(Val(s.sample_distribution))}
      [] IsCategoricalCls(s.cls) ->
             IF IsNone(s.distribution)
             THEN {Raised(s, "AttributeError")}
             ELSE {Returned(s, a) : a \in CatSamples(Val(s.distribution))}
      [] s.cls = "DiagGaussianDistribution" ->
             IF IsNone(s.distribution) THEN {Raised(s, "AttributeError")}
             ELSE {Returned(s, NormalRsample(Val(s.distribution), eps)) :
                      eps \in EpsDraws(Val(s.distribution))}
      [] s.cls = "SquashedDiagGaussianDistribution" ->
             IF IsNone(s.distribution) THEN {Raised(s, "AttributeError")}
             ELSE {LET g == NormalRsample(Val(s.distribution), eps)
                   IN  Returned([s EXCEPT !.gaussian_actions = Some(g)], Tanh(g)) :
                      eps \in EpsDraws(Val(s.distribution))}
      [] s.cls = "MultiCategoricalDistribution" ->
             IF IsNone(s.distribution) THEN {Raised(s, "TypeError")}
             ELSE LET ds == Val(s.distribution)
                      B == DOMAIN ds[1].logits
                  IN  {Returned(s, a) :
                          a \in {x \in [B -> [DOMAIN ds -> 0..1]] :
                                    \A b \in B : \A k \in DOMAIN ds :
                                        x[b][k] < Len(ds[k].logits[b])}}
      [] s.cls = "BernoulliDistribution" ->
             IF IsNone(s.distribution) THEN {Raised(s, "AttributeError")}
             ELSE LET lg == Val(s.distribution).logits
                  IN  {Returned(s, a) : a \in [DOMAIN lg -> [DOMAIN lg[1] -> {0, 1}]]}
      [] s.cls = "StateDependentNoiseDistribution" ->
             LET n == get_noise(s, s.latent_sde)
             IN  IF ~n.ok THEN {n}
                 ELSE IF IsNone(s.distribution) THEN {Raised(s, "AttributeError")}
                 ELSE IF ~Broadcastable(Val(s.distribution).loc, Val(n.val))
                 THEN {Raised(s, "RuntimeError")}
                 ELSE LET actions == TensorAdd(Val(s.distribution).loc, Val(n.val))
                      IN  {Returned(s, IF s.bijector THEN Tanh(actions) ELSE actions)}

\* A faulty rounding: one half is rounded up.
RoundProbHalfUp(logit) == IF logit >= 0 THEN 1 ELSE 0

\* th.round(probs) of a Bernoulli: sigmoid(logit) is above one half exactly
\* when the logit is positive, and th.round rounds one half to even (0).
RoundProb(logit) == IF logit > 0 THEN 1 ELSE 0

\* mode() of the instance's class.
mode(s) ==
    CASE IsCategoricalCls(s.cls) ->
             IF IsNone(SamplingDistribution(s))
             THEN {Raised(s, "AttributeError")}
             ELSE {Returned(s, Argmax(Val(SamplingDistribution(s))))}
      [] s.cls = "DiagGaussianDistribution" ->
             IF IsNone(s.distribution) THEN {Raised(s, "AttributeError")}
             ELSE {Returned(s, Val(s.distribution).loc)}
      [] s.cls = "SquashedDiagGaussianDistribution" ->
             IF IsNone(s.distribution) THEN {Raised(s, "AttributeError")}
             ELSE LET g == Val(s.distribution).loc
                  IN  {Returned([s EXCEPT !.gaussian_actions = Some(g)], Tanh(g))}
      [] s.cls = "MultiCategoricalDistribution" ->
             IF IsNone(s.distribution) THEN {Raised(s, "TypeError")}
             ELSE LET ds == Val(s.distribution)
                  IN  {Returned(s, [b \in DOMAIN ds[1].logits |->
                                       [k \in DOMAIN ds |-> Argmax(ds[k])[b]]])}
      [] s.cls = "BernoulliDistribution" ->
             IF IsNone(s.distribution) THEN {Raised(s, "AttributeError")}
             ELSE LET lg == Val(s.distribution).logits
                  IN  {Returned(s, [b \in DOMAIN lg |->
                                       [i \in DOMAIN lg[b] |-> RoundProb(lg[b][i])]])}
      [] s.cls = "StateDependentNoiseDistribution" ->
             IF IsNone(s.distribution) THEN {Raised(s, "AttributeError")}
             ELSE LET actions == Val(s.distribution).loc
                  IN  {Returned(s, IF s.bijector THEN Tanh(actions) ELSE actions)}

\* SquashedDiagGaussianDistribution.log_prob(actions, gaussian_actions):
\* without gaussian_actions the bijector's inverse recovers them.
SquashedLogProb(s, actions, gaussian_actions) ==
    LET g == IF IsNone(gaussian_actions) THEN TanhInverse(actions)
             ELSE Val(gaussian_actions)
    IN  IF IsNone(s.distribution) THEN Raised(s, "AttributeError")
        ELSE Returned(s,
                 Minus(sum_independent_dims(NormalLogProb(Val(s.distribution), g)),
                       [b \in DOMAIN actions |->
                           <<"sum", [j \in DOMAIN actions[b] |->
                               <<"log_1_minus_square", actions[b][j]>>]>>]))

\* log_prob(actions) of the instance's class.
log_prob(s, actions) ==
    CASE IsCategoricalCls(s.cls) ->
             IF IsNone(LogProbDistribution(s)) THEN {Raised(s, "AttributeError")}
             ELSE {Returned(s, CatLogProb(Val(LogProbDistribution(s)), actions))}
      [] s.cls = "DiagGaussianDistribution" ->
             IF IsNone(s.distribution) THEN {Raised(s, "AttributeError")}
             ELSE {Returned(s, sum_independent_dims(
                                   NormalLogProb(Val(s.distribution), actions)))}
      [] s.cls = "SquashedDiagGaussianDistribution" ->
             {SquashedLogProb(s, actions, None)}
      [] s.cls = "MultiCategoricalDistribution" ->
             IF IsNone(s.distribution) THEN {Raised(s, "TypeError")}
             ELSE LET ds == Val(s.distribution)
                  IN  {Returned(s, [b \in DOMAIN ds[1].logits |->
                          <<"sum", [k \in DOMAIN ds |->
                              CatLogProb(ds[k],
                                  [c \in DOMAIN actions |-> actions[c][k]])[b]]>>])}
      [] s.cls = "BernoulliDistribution" ->
             IF IsNone(s.distribution) THEN {Raised(s, "AttributeError")}
             ELSE LET lg == Val(s.distribution).logits
                  IN  {Returned(s, [b \in DOMAIN lg |->
                          <<"sum", [i \in DOMAIN lg[b] |->
                              <<"bernoulli_log_prob", lg[b][i], actions[b][i]>>]>>])}
      [] s.cls = "StateDependentNoiseDistribution" ->
             LET g == IF s.bijector THEN TanhInverse(actions) ELSE actions
             IN  IF IsNone(s.distribution) THEN {Raised(s, "AttributeError")}
                 ELSE LET lp == sum_independent_dims(
                                    NormalLogProb(Val(s.distribution), g))
                      IN  {Returned(s,
                              IF s.bijector
                              THEN Minus(lp, sum_independent_dims(log_prob_correction(g)))
                              ELSE lp)}

\* entropy() of the instance's class.  The squashed classes return None
\* without reading the bound distribution.
entropy(s) ==
    CASE IsCategoricalCls(s.cls) ->
             IF IsNone(LogProbDistribution(s)) THEN {Raised(s, "AttributeError")}
             ELSE {Returned(s, CatEntropy(Val(LogProbDistribution(s))))}
      [] s.cls = "DiagGaussianDistribution" ->
             IF IsNone(s.distribution) THEN {Raised(s, "AttributeError")}
             ELSE {Returned(s, sum_independent_dims(NormalEntropy(Val(s.distribution))))}
      [] s.cls = "SquashedDiagGaussianDistribution" -> {ReturnedNone(s)}
      [] s.cls = "MultiCategoricalDistribution" ->
             IF IsNone(s.distribution) THEN {Raised(s, "TypeError")}
             ELSE LET ds == Val(s.distribution)
                  IN  {Returned(s, [b \in DOMAIN ds[1].logits |->
                          <<"sum", [k \in DOMAIN ds |-> CatEntropy(ds[k])[b]]>>])}
      [] s.cls = "BernoulliDistribution" ->
             IF IsNone(s.distribution) THEN {Raised(s, "AttributeError")}
             ELSE LET lg == Val(s.distribution).logits
                  IN  {Returned(s, [b \in DOMAIN lg |->
                          <<"sum", [i \in DOMAIN lg[b] |->
                              <<"bernoulli_entropy", lg[b][i]>>]>>])}
      [] s.cls = "StateDependentNoiseDistribution" ->
             IF s.bijector THEN {ReturnedNone(s)}
             ELSE IF IsNone(s.distribution) THEN {Raised(s, "AttributeError")}
             ELSE {Returned(s, sum_independent_dims(NormalEntropy(Val(s.distribution))))}

\* Distribution.get_actions
get_actions(s, deterministic) == IF deterministic THEN mode(s) ELSE sample(s)

\* actions_from_params of every class: proba_distribution, then get_actions.
actions_from_params(s, p, deterministic) ==
    LET b == proba_distribution(s, p)
    IN  IF ~b.ok THEN {b} ELSE get_actions(b.self, deterministic)

\* log_prob_from_params of every class: actions_from_params, then log_prob of
\* the drawn actions (the squashed Gaussian passes its stored
\* gaussian_actions); returns the pair (actions, log_prob).
log_prob_from_params(s, p) ==
    UNION {IF ~a.ok THEN {a}
           ELSE {IF ~l.ok THEN l ELSE Returned(l.self, <<Val(a.val), Val(l.val)>>) :
                    l \in IF a.self.cls = "SquashedDiagGaussianDistribution"
                          THEN {SquashedLogProb(a.self, Val(a.val),
                                                a.self.gaussian_actions)}
                          ELSE log_prob(a.self, Val(a.val))} :
           a \in actions_from_params(s, p, FALSE)}

(***************************************************************************)
(* kl_divergence(dist_true, dist_pred).                                    *)
(***************************************************************************)
Abs(x) == IF x < 0 THEN -x ELSE x

\* numpy broadcasting of two one-dimensional arrays: equal lengths, or one
\* of them of length 1, which is repeated.
NpBroadcastable(a, b) == Len(a) = Len(b) \/ Len(a) = 1 \/ Len(b) = 1

NpBroadcastLen(a, b) == IF Len(a) > Len(b) THEN Len(a) ELSE Len(b)

NpItem(a, i) == IF Len(a) = 1 THEN a[1] ELSE a[i]

\* np.allclose(a, b) on arrays that broadcast: every pair of items has
\* |a - b| <= atol + rtol * |b| with atol = 1e-8 and rtol = 1e-5.
NpAllClose(a, b) ==
    \A i \in 1..NpBroadcastLen(a, b) :
        100000000 * Abs(NpItem(a, i) - NpItem(b, i))
            <= 1 + 1000 * Abs(NpItem(b, i))

\* th.distributions.kl_divergence(p, q) of two Categoricals, per row, as a
\* term.
CatKl(p, q) == [b \in DOMAIN p.logits |-> <<"kl", p.logits[b], q.logits[b]>>]

\* zip(xs, ys) stops at the shorter list.
ZipLen(xs, ys) == IF Len(xs) < Len(ys) THEN Len(xs) ELSE Len(ys)

kl_divergence(dist_true, dist_pred) ==
    IF dist_true.cls # dist_pred.cls THEN Raised(dist_true, "AssertionError")
    ELSE IF dist_pred.cls = "MultiCategoricalDistribution"
    THEN LET pred_dims == Val(dist_pred.action_dims)
             true_dims == Val(dist_true.action_dims)
         IN  IF ~NpBroadcastable(pred_dims, true_dims)
             THEN Raised(dist_true, "ValueError")
             ELSE IF ~NpAllClose(pred_dims, true_dims)
             THEN Raised(dist_true, "AssertionError")
             ELSE IF IsNone(dist_true.distribution) \/ IsNone(dist_pred.distribution)
             THEN Raised(dist_true, "TypeError")
             ELSE LET ps == Val(dist_true.distribution)
                      qs == Val(dist_pred.distribution)
                  IN  Returned(dist_true,
                          [b \in DOMAIN ps[1].logits |->
                              <<"sum", [k \in 1..ZipLen(ps, qs) |->
                                           CatKl(ps[k], qs[k])[b]]>>])
    ELSE IF IsNone(dist_true.distribution) \/ IsNone(dist_pred.distribution)
    THEN Raised(dist_true, "NotImplementedError")
    ELSE Returned(dist_true,
                  <<"kl", Val(dist_true.distribution), Val(dist_pred.distribution)>>)

(***************************************************************************)
(* The factory.                                                            *)
(***************************************************************************)
\* A faulty Box branch: use_sde is ignored.
BoxDistributionIgnoringSde(use_sde) == DiagGaussianInit

\* The class make_proba_distribution constructs for a Box space.
BoxDistribution(use_sde) ==
    IF use_sde THEN StateDependentNoiseInit(FALSE) ELSE DiagGaussianInit

\* What a key of dist_kwargs holds: nothing (the key is absent), None, or a
\* callable.
KwVals == {"absent", "None", "callable"}

KwargsChoices ==
    [get_valid_actions : KwVals, get_invalid_actions_layer : KwVals]

EmptyKwargs ==
    [get_valid_actions |-> "absent", get_invalid_actions_layer |-> "absent"]

\* Action spaces handed to the factory; Tuple stands for any other kind.
ActionSpaces ==
    {[kind |-> "Box", shape |-> <<Cardinality(ActionComponents)>>],
     [kind |-> "Discrete", shape |-> <<NActions>>],
     [kind |-> "MultiBinary", shape |-> <<NActions>>],
     [kind |-> "Tuple", shape |-> <<>>]}
    \cup {[kind |-> "MultiDiscrete", shape |-> d] : d \in ActionDimsChoices}

\* The outcome of a raise whose message names `what`.
RaisedNaming(s, e, what) ==
    [self |-> s, ok |-> FALSE, val |-> Some(what), exc |-> e]

\* cls(positional, **kw): Python rejects every keyword the constructor does
\* not declare before its body runs; no constructor here declares either
\* masking key.
WithKwargs(s, kw, constructed) ==
    IF kw # EmptyKwargs THEN Raised(s, "TypeError")
    ELSE IF constructed.ok THEN Returned(constructed.self, constructed.self.cls)
    ELSE Raised(s, constructed.exc)

\* use_limited_actions of make_proba_distribution
use_limited_actions(kw) ==
    kw.get_valid_actions = "callable" \/ kw.get_invalid_actions_layer = "callable"

\* make_proba_distribution: the outcome, with the caller's mapping afterwards
\* (`kwargs`; None when the caller passed none).  s is the caller's current
\* instance, kept when nothing is returned.
make_proba_distribution(s, action_space, use_sde, dist_kwargs_arg) ==
    LET kw == IF IsNone(dist_kwargs_arg) THEN EmptyKwargs ELSE Val(dist_kwargs_arg)
        after(k) == IF IsNone(dist_kwargs_arg) THEN None ELSE Some(k)
        result(o, k) ==
            [self |-> o.self, ok |-> o.ok, val |-> o.val, exc |-> o.exc,
             kwargs |-> after(k)]
    IN  CASE action_space.kind = "Box" ->
                 result(WithKwargs(s, kw, BoxDistribution(use_sde)), kw)
          [] action_space.kind = "Discrete" /\ use_limited_actions(kw) ->
                 IF kw.get_invalid_actions_layer = "absent"
                 THEN result(Raised(s, "KeyError"), kw)
                 ELSE LET rest == [kw EXCEPT !.get_invalid_actions_layer = "absent"]
                      IN  result(WithKwargs(s, rest,
                                     LimitedActionsInit(kw.get_invalid_actions_layer)),
                                 rest)
          [] action_space.kind = "Discrete" /\ ~use_limited_actions(kw) ->
                 result(WithKwargs(s, kw, CategoricalDistributionInit), kw)
          [] action_space.kind = "MultiDiscrete" ->
                 result(WithKwargs(s, kw, MultiCategoricalInit(action_space.shape)), kw)
          [] action_space.kind = "MultiBinary" ->
                 result(WithKwargs(s, kw, BernoulliInit), kw)
          [] OTHER ->
                 result(RaisedNaming(s, "NotImplementedError", action_space.kind), kw)

(***************************************************************************)
(* Inputs of the calls.                                                    *)
(***************************************************************************)
MeanTensors == Batches(BatchSizes, [ActionComponents -> MeanVals])

\* log_std tensors of gSDE: one row per latent feature, or one row too many.
LogStdMatrices == [LatentFeatures -> [ActionComponents -> SdeLogStdVals]]

MisshapenLogStd ==
    [1..(Cardinality(LatentFeatures) + 1) -> [ActionComponents -> SdeLogStdVals]]

\* Parameters a caller can bind an instance of class s.cls to.
Params(s) ==
    CASE IsGaussianCls(s.cls) ->
             [mean_actions : MeanTensors, log_std : [ActionComponents -> LogStdVals]]
      [] s.cls = "CategoricalDistribution" ->
             [action_logits : Batches(BatchSizes, LogitRows)]
      [] s.cls \in {"CategoricalDistributionLimitedActions",
                    "CategoricalDistributionLimitedActions_Manual"} ->
             \* obs: None, a batch of no rows, or one row per row of logits.
             UNION {[action_logits : {l},
                     obs : {None, Some(<<>>)}
                           \cup {Some(m) : m \in [DOMAIN l -> IndicatorRows]}] :
                    l \in Batches(BatchSizes, LogitRows)}
      [] s.cls = "MultiCategoricalDistribution" ->
             \* rows as long as the cardinalities' sum, or one logit short.
             [action_logits :
                 UNION {Batches(BatchSizes, [1..w -> LogitVals]) :
                        w \in {SeqSum(Val(s.action_dims)) - 1,
                               SeqSum(Val(s.action_dims))}}]
      [] s.cls = "BernoulliDistribution" ->
             [action_logits :
                 Batches(BatchSizes, [1..NActions -> BernoulliLogitVals])]
      [] s.cls = "StateDependentNoiseDistribution" ->
             UNION {[mean_actions : {m},
                     log_std : LogStdMatrices \cup MisshapenLogStd,
                     latent_sde : [DOMAIN m -> [LatentFeatures -> LatentVals]]] :
                    m \in Batches(BatchSizes, [ActionComponents -> SdeMeanVals])}

\* Rows of the bound batch, one row when nothing is bound.
BoundRows(s) ==
    IF IsNone(s.distribution) THEN {1}
    ELSE IF s.cls = "MultiCategoricalDistribution"
         THEN DOMAIN Val(s.distribution)[1].logits
    ELSE IF s.cls \in {"DiagGaussianDistribution", "SquashedDiagGaussianDistribution",
                       "StateDependentNoiseDistribution"}
         THEN DOMAIN Val(s.distribution).loc
    ELSE DOMAIN Val(s.distribution).logits

\* Action tensors a caller can hand to log_prob.
LogProbArgs(s) ==
    CASE IsCategoricalCls(s.cls) -> [BoundRows(s) -> ActionIdx]
      [] s.cls = "MultiCategoricalDistribution" ->
             LET dims == Val(s.action_dims)
             IN  {x \in [BoundRows(s) -> [DOMAIN dims -> 0..1]] :
                     \A b \in BoundRows(s) : \A k \in DOMAIN dims : x[b][k] < dims[k]}
      [] s.cls = "BernoulliDistribution" ->
             [BoundRows(s) -> [1..NActions -> {0, 1}]]
      [] s.cls = "SquashedDiagGaussianDistribution"
         \/ (s.cls = "StateDependentNoiseDistribution" /\ s.bijector) ->
             \* squashed actions are floats
             [BoundRows(s) -> [ActionComponents -> {Num(v, 0) : v \in MeanVals}]]
      [] OTHER -> [BoundRows(s) -> [ActionComponents -> MeanVals]]

\* Entries of the tensors handed to TanhBijector.inverse: whole numbers from
\* -2 to 2 and the floats within three steps of eps / 2 of each.
TanhInputVals == {Num(n, h) : n \in -2..2, h \in -3..3}

TanhInputs == Batches(BatchSizes, [ActionComponents -> TanhInputVals])

\* Cardinality lists of the distributions handed to kl_divergence.
KlActionDims == ActionDimsChoices \cup {<<2, 2>>, <<2, 2, 2>>}

\* Instances handed to kl_divergence, just constructed.
KlFresh ==
    {MultiCategoricalInit(d).self : d \in KlActionDims}
    \cup {DiagGaussianInit.self}

\* Parameters of one row that the instance can be bound to.
KlParams(s) ==
    {p \in Params(s) :
        /\ Len(IF s.cls = "MultiCategoricalDistribution"
               THEN p.action_logits ELSE p.mean_actions) = 1
        /\ proba_distribution(s, p).ok}

\* Bound instances a caller can pass as dist_pred.
KlInstances ==
    UNION {{proba_distribution(f, p).self : p \in KlParams(f)} : f \in KlFresh}

(***************************************************************************)
(* Actions: one per call a caller can make.                                *)
(***************************************************************************)
\* What the last call gave back: its name, whether it returned, the value
\* (or the item an error message names), the exception, and a note on the
\* call: the factory's arguments, the class a constructor was asked for,
\* how a binding relates to the one it replaces.
Stamp(op, o, args) ==
    [op |-> op, ok |-> o.ok, val |-> o.val, exc |-> o.exc, args |-> args]

NoCall ==
    [op |-> "none", ok |-> TRUE, val |-> None, exc |-> "none", args |-> None]

\* Direct constructor calls, each with the class asked for.
DirectConstructions ==
    {[cls |-> "DiagGaussianDistribution", out |-> DiagGaussianInit],
     [cls |-> "SquashedDiagGaussianDistribution", out |-> SquashedDiagGaussianInit],
     [cls |-> "CategoricalDistribution", out |-> CategoricalDistributionInit],
     [cls |-> "BernoulliDistribution", out |-> BernoulliInit]}
    \cup {[cls |-> "CategoricalDistributionLimitedActions",
           out |-> LimitedActionsInit(v)] : v \in {"None", "callable"}}
    \cup {[cls |-> "CategoricalDistributionLimitedActions_Manual",
           out |-> LimitedActionsManualInit(v)] : v \in {"None", "callable"}}
    \cup {[cls |-> "MultiCategoricalDistribution",
           out |-> MultiCategoricalInit(d)] : d \in ActionDimsChoices}
    \cup {[cls |-> "StateDependentNoiseDistribution",
           out |-> StateDependentNoiseInit(sq)] : sq \in BOOLEAN}

\* The instances a constructor can return.
FreshInstances == {c.out.self : c \in {d \in DirectConstructions : d.out.ok}}

\* A constructor is called directly; the caller keeps its old instance when
\* the constructor raises.
Construct ==
    \E c \in DirectConstructions :
        /\ self' = IF c.out.ok THEN c.out.self ELSE self
        /\ ret' = Stamp("__init__", c.out, Some(c.cls))
        /\ bound_params' = IF c.out.ok THEN None ELSE bound_params
        /\ binds' = IF c.out.ok THEN 0 ELSE binds
        /\ UNCHANGED dist_kwargs

\* make_proba_distribution is called with a mapping `kw` (or None).
CallFactory(action_space, use_sde, kw) ==
    LET o == make_proba_distribution(self, action_space, use_sde, kw)
    IN  /\ self' = o.self
        /\ ret' = Stamp("make_proba_distribution", o,
                        Some([action_space |-> action_space, use_sde |-> use_sde,
                              dist_kwargs |-> kw]))
        /\ dist_kwargs' = o.kwargs
        /\ bound_params' = IF o.ok THEN None ELSE bound_params
        /\ binds' = IF o.ok THEN 0 ELSE binds

MakeProbaDistribution ==
    \E action_space \in ActionSpaces, use_sde \in BOOLEAN,
       kw \in {None} \cup {Some(k) : k \in KwargsChoices} :
        CallFactory(action_space, use_sde, kw)

\* make_proba_distribution is called again with the mapping object the
\* previous call was given.
MakeProbaDistributionAgain ==
    /\ ~IsNone(dist_kwargs)
    /\ \E action_space \in ActionSpaces, use_sde \in BOOLEAN :
           CallFactory(action_space, use_sde, dist_kwargs)

\* A method call that does not bind, noting `args` with its result.
CallWith(op, outcomes, args) ==
    /\ self.cls # "none"
    /\ \E o \in outcomes :
           /\ self' = o.self
           /\ ret' = Stamp(op, o, args)
    /\ UNCHANGED <<dist_kwargs, bound_params, binds>>

\* A method call that does not bind.
Call(op, outcomes) == CallWith(op, outcomes, None)

\* How a binding of p relates to the binding in force: the first one, the
\* same parameters again, or different ones.
Prior(p) ==
    IF IsNone(bound_params) THEN "first"
    ELSE IF Val(bound_params) = p THEN "same" ELSE "different"

\* Shape of a two-dimensional tensor with at least one row.
Shape(t) == <<Len(t), Len(t[1])>>

\* The note kept on a binding call: how it relates to the binding in force,
\* whether it was given obs = None, the shape of its first tensor, and
\* whether it went on to take the mode.
BindNote(p, deterministic) ==
    [prior |-> Prior(p),
     obs_none |-> IF "obs" \in DOMAIN p THEN IsNone(p.obs) ELSE FALSE,
     shape |-> Shape(IF "action_logits" \in DOMAIN p THEN p.action_logits
                     ELSE p.mean_actions),
     deterministic |-> deterministic]

\* A method call that binds parameters p when it gets past proba_distribution.
BindingCall(op, p, outcomes, deterministic) ==
    LET bound == proba_distribution(self, p).ok
    IN  /\ binds + 1 \in BindCalls
        /\ \E o \in outcomes :
               /\ self' = o.self
               /\ ret' = Stamp(op, o, Some(BindNote(p, deterministic)))
        /\ bound_params' = IF bound THEN Some(p) ELSE bound_params
        /\ binds' = binds + 1
        /\ UNCHANGED dist_kwargs

ProbaDistribution ==
    /\ self.cls # "none"
    /\ binds + 1 \in BindCalls
    /\ \E p \in Params(self) :
           LET o == proba_distribution(self, p)
           IN  /\ self' = o.self
               /\ ret' = Stamp("proba_distribution", o, Some(BindNote(p, FALSE)))
               /\ bound_params' = IF o.ok THEN Some(p) ELSE bound_params
               /\ binds' = binds + 1
               /\ UNCHANGED dist_kwargs

Sample == Call("sample", sample(self))

Mode == Call("mode", mode(self))

LogProb ==
    \E actions \in LogProbArgs(self) :
        CallWith("log_prob", log_prob(self, actions), Some(actions))

Entropy == Call("entropy", entropy(self))

GetActions ==
    \E deterministic \in BOOLEAN :
        CallWith("get_actions", get_actions(self, deterministic),
                 Some(deterministic))

ActionsFromParams ==
    /\ self.cls # "none"
    /\ \E p \in Params(self), deterministic \in BOOLEAN :
           BindingCall("actions_from_params", p,
                       actions_from_params(self, p, deterministic),
                       deterministic)

LogProbFromParams ==
    /\ self.cls # "none"
    /\ \E p \in Params(self) :
           BindingCall("log_prob_from_params", p, log_prob_from_params(self, p),
                       FALSE)

\* Batch sizes sample_weights is asked to pre-sample.
WeightBatches == 1..MaxWeightBatch

SampleWeights ==
    /\ self.cls = "StateDependentNoiseDistribution"
    /\ \E log_std \in LogStdMatrices, batch_size \in WeightBatches,
          mat \in WeightMatrices :
           \E mats \in [1..batch_size -> WeightMatrices] :
               Call("sample_weights", {sample_weights(self, log_std, mat, mats)})

\* StateDependentNoiseDistribution.proba_distribution_net: log_std is filled
\* with log_std_init, and sample_weights draws with its default batch_size 1.
ProbaDistributionNet ==
    /\ self.cls = "StateDependentNoiseDistribution"
    /\ \E log_std_init \in SdeLogStdVals, mat \in WeightMatrices :
           \E mats \in [1..1 -> WeightMatrices] :
               LET log_std == [l \in LatentFeatures |->
                                  [j \in ActionComponents |-> log_std_init]]
                   o == sample_weights(self, log_std, mat, mats)
               IN  Call("proba_distribution_net",
                        {Returned(o.self, log_std)})

GetNoise ==
    /\ self.cls = "StateDependentNoiseDistribution"
    /\ \E latent_sde \in Batches(BatchSizes, [LatentFeatures -> LatentVals]) :
           CallWith("get_noise", {get_noise(self, Some(latent_sde))},
                    Some(latent_sde))

\* kl_divergence(self, dist_pred): the instance is dist_true.
KlDivergence ==
    \E dist_pred \in KlInstances :
        CallWith("kl_divergence", {kl_divergence(self, dist_pred)},
                 Some(dist_pred))

\* TanhBijector.inverse(y), a static method: no instance is read or changed.
TanhBijectorInverse ==
    \E y \in TanhInputs :
        /\ ret' = Stamp("TanhBijector.inverse", Returned(self, TanhInverse(y)), Some(y))
        /\ UNCHANGED <<self, dist_kwargs, bound_params, binds>>

(***************************************************************************)
(* Specifications.                                                         *)
(***************************************************************************)
\* The whole program: no instance yet, every call available.
Init ==
    /\ self = BlankInstance
    /\ ret = NoCall
    /\ dist_kwargs = None
    /\ bound_params = None
    /\ binds = 0

Next ==
    \/ Construct
    \/ MakeProbaDistribution
    \/ MakeProbaDistributionAgain
    \/ ProbaDistribution
    \/ Sample
    \/ Mode
    \/ LogProb
    \/ Entropy
    \/ GetActions
    \/ ActionsFromParams
    \/ LogProbFromParams
    \/ SampleWeights
    \/ ProbaDistributionNet
    \/ GetNoise
    \/ KlDivergence
    \/ TanhBijectorInverse

Spec == Init /\ [][Next]_vars

\* The factory and the constructors alone.
NextFactory ==
    \/ Construct
    \/ MakeProbaDistribution
    \/ MakeProbaDistributionAgain

SpecFactory == Init /\ [][NextFactory]_vars

\* One instance of any class, just constructed, and the interface's
\* bind-then-query methods.
InitInstance ==
    /\ self \in FreshInstances
    /\ ret = NoCall
    /\ dist_kwargs = None
    /\ bound_params = None
    /\ binds = 0

NextInstance ==
    \/ ProbaDistribution
    \/ Sample
    \/ Mode
    \/ LogProb
    \/ Entropy

SpecInstance == InitInstance /\ [][NextInstance]_vars

\* One masked categorical instance of either class.
InitMasked ==
    /\ InitInstance
    /\ self.cls \in {"CategoricalDistributionLimitedActions",
                     "CategoricalDistributionLimitedActions_Manual"}

NextMasked ==
    \/ ProbaDistribution
    \/ Sample
    \/ Mode
    \/ LogProb
    \/ Entropy

SpecMasked == InitMasked /\ [][NextMasked]_vars

\* One gSDE instance and every method of its class.
InitSde ==
    /\ InitInstance
    /\ self.cls = "StateDependentNoiseDistribution"

NextSde ==
    \/ ProbaDistribution
    \/ Sample
    \/ Mode
    \/ LogProb
    \/ Entropy
    \/ GetActions
    \/ ActionsFromParams
    \/ LogProbFromParams
    \/ SampleWeights
    \/ ProbaDistributionNet
    \/ GetNoise

SpecSde == InitSde /\ [][NextSde]_vars

\* One MultiCategorical instance.
InitMultiCategorical ==
    /\ InitInstance
    /\ self.cls = "MultiCategoricalDistribution"

NextMultiCategorical ==
    \/ ProbaDistribution
    \/ Sample
    \/ Mode
    \/ LogProb
    \/ Entropy

SpecMultiCategorical == InitMultiCategorical /\ [][NextMultiCategorical]_vars

\* One Bernoulli instance.
InitBernoulli ==
    /\ InitInstance
    /\ self.cls = "BernoulliDistribution"

NextBernoulli ==
    \/ ProbaDistribution
    \/ Sample
    \/ Mode
    \/ LogProb
    \/ Entropy

SpecBernoulli == InitBernoulli /\ [][NextBernoulli]_vars

\* One instance of a Gaussian class or of the masked class with two
\* distributions, and the methods that bind and query in one call.
InitParams ==
    /\ InitInstance
    /\ self.cls \in {"DiagGaussianDistribution",
                     "SquashedDiagGaussianDistribution",
                     "CategoricalDistributionLimitedActions_Manual"}

NextParams ==
    \/ GetActions
    \/ ActionsFromParams
    \/ LogProbFromParams

SpecParams == InitParams /\ [][NextParams]_vars

\* Two instances, each constructed and bound to one row: the first is the
\* instance, the second is chosen at each kl_divergence call.
InitKl ==
    \E f \in KlFresh : \E p \in KlParams(f) :
        LET o == proba_distribution(f, p)
        IN  /\ self = o.self
            /\ ret = Stamp("proba_distribution", o,
                           Some([prior |-> "first", obs_none |-> FALSE,
                                 shape |-> Shape(IF "action_logits" \in DOMAIN p
                                                 THEN p.action_logits
                                                 ELSE p.mean_actions),
                                 deterministic |-> FALSE]))
            /\ dist_kwargs = None
            /\ bound_params = Some(p)
            /\ binds = 1

NextKl == KlDivergence

SpecKl == InitKl /\ [][NextKl]_vars

\* The bijector's inverse alone, applied to one tensor after another.
NextTanh == TanhBijectorInverse

SpecTanh == Init /\ [][NextTanh]_vars

(***************************************************************************)
(* Properties.                                                             *)
(***************************************************************************)
Queries == {"sample", "mode", "log_prob", "entropy"}

MaskedClasses ==
    {"CategoricalDistributionLimitedActions",
     "CategoricalDistributionLimitedActions_Manual"}

\* The instance has been bound at least once, and to which parameters.
IsBound == ~IsNone(bound_params)

BoundTo == Val(bound_params)

\* Whether the bound mask flags zero-based index a of row b as invalid: the
\* invalid-indicator layer flags positive entries, the valid-indicator
\* callable flags zero entries.
Flagged(b, a) ==
    IF self.cls = "CategoricalDistributionLimitedActions"
    THEN Val(BoundTo.obs)[b][a + 1] > 0
    ELSE Val(BoundTo.obs)[b][a + 1] = 0

SquashedEntropy ==
    /\ ret.op = "entropy"
    /\ \/ self.cls = "SquashedDiagGaussianDistribution"
       \/ self.cls = "StateDependentNoiseDistribution" /\ self.bijector

\* What a constructor leaves: the class and its construction arguments.
AsConstructed(s) ==
    [BlankInstance EXCEPT !.cls = s.cls,
                          !.action_dims = s.action_dims,
                          !.bijector = s.bijector]

\* The attributes proba_distribution assigns in some class.
SameBinding(s, t) ==
    /\ s.distribution = t.distribution
    /\ s.sample_distribution = t.sample_distribution
    /\ s.original_action_logits = t.original_action_logits
    /\ s.invalid_actions = t.invalid_actions
    /\ s.invalid_logit_value = t.invalid_logit_value
    /\ s.new_action_logits = t.new_action_logits
    /\ s.latent_sde = t.latent_sde

\* No proba_distribution call has assigned anything: every attribute a bind
\* assigns is as the constructor left it.
NeverBound == SameBinding(self, AsConstructed(self))

BoundOnce == proba_distribution(AsConstructed(self), BoundTo).self

\* The same, holding the instance's exploration noise, which sample_weights
\* (not binding) sets.
BoundOnceWithNoise ==
    [BoundOnce EXCEPT !.weights_dist = self.weights_dist,
                      !.exploration_mat = self.exploration_mat,
                      !.exploration_matrices = self.exploration_matrices]

SameResult(o) == o.ok = ret.ok /\ o.val = ret.val /\ o.exc = ret.exc

\* C2 as stated: after any sequence of proba_distribution calls, every
\* sample, mode, log_prob and entropy result is one that an instance bound
\* once to the most recent successfully bound parameters gives, and a
\* successful bind leaves exactly the bound state of a single bind of its
\* parameters (so binding the same parameters again changes nothing).
C2_BindingReplacesPrior ==
    IsBound =>
        /\ ret.op = "sample" => \E o \in sample(BoundOnceWithNoise) : SameResult(o)
        /\ ret.op = "mode" => \E o \in mode(BoundOnceWithNoise) : SameResult(o)
        /\ ret.op = "entropy" =>
               \E o \in entropy(BoundOnceWithNoise) : SameResult(o)
        /\ ret.op = "log_prob" =>
               \E actions \in LogProbArgs(BoundOnceWithNoise) :
                   \E o \in log_prob(BoundOnceWithNoise, actions) : SameResult(o)
        /\ (ret.op = "proba_distribution" /\ ret.ok) =>
               SameBinding(self, BoundOnce)

\* C3 as stated: after a bind of either masked class, the distribution
\* sample draws from is the one log_prob evaluates.
C3_OneMaskedDistribution ==
    (IsBound /\ self.cls \in MaskedClasses) =>
        SamplingDistribution(self) = LogProbDistribution(self)

\* C4 as stated: a sample of a bound masked categorical never holds an index
\* the bound mask flags as invalid.
C4_NeverSamplesFlagged ==
    (IsBound /\ self.cls \in MaskedClasses /\ ret.op = "sample" /\ ret.ok) =>
        \A b \in DOMAIN Val(ret.val) : ~Flagged(b, Val(ret.val)[b])

\* The margin of the instance's class.
MarginOf(s) ==
    IF s.cls = "CategoricalDistributionLimitedActions"
    THEN LimitedMargin ELSE ManualMargin

\* C4 amended: a sample of a bound masked categorical can hold a flagged
\* index, but only one whose logit in the sampled distribution is at least
\* the class's margin (10, or 100 in the _Manual class) below the logit of
\* every unflagged index of its row; every sampled index is in range.
C4_SampledFlaggedIsSuppressed ==
    (IsBound /\ self.cls \in MaskedClasses /\ ret.op = "sample" /\ ret.ok) =>
        \A b \in DOMAIN Val(ret.val) :
            LET a == Val(ret.val)[b]
                row == Val(SamplingDistribution(self)).logits[b]
            IN  /\ a \in 0..(Len(BoundTo.action_logits[b]) - 1)
                /\ Flagged(b, a) =>
                       \A i \in 0..(Len(row) - 1) :
                           ~Flagged(b, i) =>
                               row[a + 1] <= row[i + 1] - MarginOf(self)

\* A sample returned a flagged index of a row that also has an unflagged one.
C4_Witness ==
    /\ IsBound
    /\ self.cls \in MaskedClasses
    /\ ret.op = "sample"
    /\ ret.ok
    /\ \E b \in DOMAIN Val(ret.val) :
           /\ Flagged(b, Val(ret.val)[b])
           /\ \E i \in ActionIdx : ~Flagged(b, i)

\* C5: on each bind of CategoricalDistributionLimitedActions,
\* invalid_logit_value is the smaller of (smallest raw logit of the whole
\* batch - 10) and -10; the adjusted logits hold it at every flagged
\* position and the raw logit elsewhere; the bound categorical is built from
\* the adjusted logits; so every flagged logit is at least 10 below every
\* raw logit of the batch.
C5_InvalidLogitValue ==
    (IsBound /\ self.cls = "CategoricalDistributionLimitedActions") =>
        LET raw == BoundTo.action_logits
            v == Val(self.invalid_logit_value)
            adjusted == Val(self.new_action_logits)
            Entries == {<<b, i>> : b \in DOMAIN raw, i \in 1..NActions}
        IN  /\ v <= -10
            /\ \A e \in Entries : v <= raw[e[1]][e[2]] - 10
            /\ v = -10 \/ \E e \in Entries : v = raw[e[1]][e[2]] - 10
            /\ DOMAIN adjusted = DOMAIN raw
            /\ \A e \in Entries :
                   adjusted[e[1]][e[2]] =
                       IF Flagged(e[1], e[2] - 1) THEN v ELSE raw[e[1]][e[2]]
            /\ self.distribution = Some(Categorical(adjusted))
            /\ \A e \in Entries, f \in Entries :
                   Flagged(e[1], e[2] - 1) =>
                       adjusted[e[1]][e[2]] <= raw[f[1]][f[2]] - 10

\* A bind of two rows whose flagged position lies in a row of large logits
\* while the smallest logit of the batch is in the other row.
C5_Witness ==
    /\ IsBound
    /\ self.cls = "CategoricalDistributionLimitedActions"
    /\ ret.op = "proba_distribution"
    /\ ret.ok
    /\ Len(BoundTo.action_logits) = 2
    /\ \E b \in 1..2, i \in ActionIdx :
           /\ Flagged(b, i)
           /\ \A j \in 1..NActions :
                  BoundTo.action_logits[b][j] > TensorMin(BoundTo.action_logits)

\* The masking keys a call of the factory was given.
KwOf(call) ==
    IF IsNone(call.dist_kwargs) THEN EmptyKwargs ELSE Val(call.dist_kwargs)

\* C6 as stated: the factory, given a Discrete space and neither masking key,
\* returns a plain CategoricalDistribution.
C6_DiscreteGivesCategorical ==
    (/\ ret.op = "make_proba_distribution"
     /\ Val(ret.args).action_space.kind = "Discrete"
     /\ KwOf(Val(ret.args)) = EmptyKwargs) =>
        ret.ok /\ self.cls = "CategoricalDistribution"

\* C7 as stated: the factory, given a Discrete space and exactly one masking
\* callable (the other key absent), returns a masked categorical, whichever
\* of the two keys holds the callable.
C7_EitherCollaboratorGivesMasked ==
    (/\ ret.op = "make_proba_distribution"
     /\ Val(ret.args).action_space.kind = "Discrete"
     /\ \E k \in {"get_valid_actions", "get_invalid_actions_layer"} :
            KwOf(Val(ret.args)) = [EmptyKwargs EXCEPT ![k] = "callable"]) =>
        ret.ok /\ self.cls \in MaskedClasses

\* C8: for a Box space the factory constructs StateDependentNoiseDistribution
\* when use_sde is set and DiagGaussianDistribution otherwise, for
\* MultiDiscrete a MultiCategoricalDistribution whose action_dims is the
\* space's nvec, for MultiBinary a BernoulliDistribution: that is the class
\* of whatever it returns, and it does return when dist_kwargs holds no key
\* foreign to the constructor.  For any other kind it raises
\* NotImplementedError naming the kind and returns nothing.
C8_FactoryDispatch ==
    ret.op = "make_proba_distribution" =>
        LET call == Val(ret.args)
            kind == call.action_space.kind
        IN  /\ (kind \in {"Box", "MultiDiscrete", "MultiBinary"}
                /\ KwOf(call) = EmptyKwargs) => ret.ok
            /\ (kind = "Box" /\ ret.ok) =>
                   /\ self.cls = IF call.use_sde
                                 THEN "StateDependentNoiseDistribution"
                                 ELSE "DiagGaussianDistribution"
                   /\ ret.val = Some(self.cls)
            /\ (kind = "MultiDiscrete" /\ ret.ok) =>
                   /\ self.cls = "MultiCategoricalDistribution"
                   /\ self.action_dims = Some(call.action_space.shape)
            /\ (kind = "MultiBinary" /\ ret.ok) =>
                   self.cls = "BernoulliDistribution"
            /\ kind \notin {"Box", "Discrete", "MultiDiscrete", "MultiBinary"} =>
                   /\ ~ret.ok
                   /\ ret.exc = "NotImplementedError"
                   /\ ret.val = Some(kind)

\* The factory returned a gSDE distribution for a Box space.
C8_Witness ==
    /\ ret.op = "make_proba_distribution"
    /\ ret.ok
    /\ Val(ret.args).action_space.kind = "Box"
    /\ Val(ret.args).use_sde
    /\ self.cls = "StateDependentNoiseDistribution"

Resamples == {"sample_weights", "proba_distribution_net"}

\* C9: a step changes exploration_mat or exploration_matrices only when it is
\* a sample_weights or proba_distribution_net call, and such a call leaves
\* both set; every other call leaves both as they were.
C9_NoisePersistsUntilResample ==
    [][/\ ret'.op \notin Resamples =>
              /\ self'.exploration_mat = self.exploration_mat
              /\ self'.exploration_matrices = self.exploration_matrices
       /\ ret'.op \in Resamples =>
              /\ ~IsNone(self'.exploration_mat)
              /\ ~IsNone(self'.exploration_matrices)]_vars

\* A sample was drawn from a bound instance holding exploration noise.
C9_Witness ==
    /\ self.cls = "StateDependentNoiseDistribution"
    /\ ret.op = "sample"
    /\ ret.ok
    /\ ~IsNone(self.exploration_mat)
    /\ Len(Val(self.exploration_matrices)) = 2

\* Whether get_noise takes the base-matrix path for the stored latent batch.
OnBasePath ==
    \/ Len(Val(self.latent_sde)) = 1
    \/ Len(Val(self.latent_sde)) # Len(Val(self.exploration_matrices))

\* C10: on the base-matrix path every sample of a bound gSDE instance is
\* mean + latent @ exploration_mat (through tanh when squashing): a function
\* of the bound mean, the stored latent features and the stored matrix
\* alone, so two samples with these unchanged are equal.
C10_SampleIsDeterministic ==
    (/\ self.cls = "StateDependentNoiseDistribution"
     /\ ret.op = "sample"
     /\ ret.ok
     /\ OnBasePath) =>
        LET mean == Val(self.distribution).loc
            latent == Val(self.latent_sde)
            mat == Val(self.exploration_mat)
            rows == IF Len(mean) >= Len(latent) THEN Len(mean) ELSE Len(latent)
            actions ==
                [b \in 1..rows |->
                    [j \in ActionComponents |->
                        BroadcastRow(mean, b)[j]
                        + SumOver([l \in LatentFeatures |->
                                      BroadcastRow(latent, b)[l] * mat[l][j]],
                                  LatentFeatures)]]
        IN  ret.val = Some(IF self.bijector THEN Tanh(actions) ELSE actions)

\* A sample of a two-row batch on the base-matrix path, while the first
\* pre-sampled matrix differs from the base matrix.
C10_Witness ==
    /\ self.cls = "StateDependentNoiseDistribution"
    /\ ret.op = "sample"
    /\ ret.ok
    /\ Len(Val(self.latent_sde)) = 2
    /\ Len(Val(self.exploration_matrices)) = 1
    /\ Val(self.exploration_matrices)[1] # Val(self.exploration_mat)

\* C11: get_noise(latent) gives one row of noise per latent row, each with
\* one component per action component.  When the latent batch has one row,
\* or its row count differs from the number of pre-sampled matrices, row b
\* is latent[b] @ exploration_mat; otherwise it is
\* latent[b] @ exploration_matrices[b].
C11_NoiseMatrixSelection ==
    (ret.op = "get_noise" /\ ret.ok) =>
        LET latent == Val(ret.args)
            noise == Val(ret.val)
            mats == Val(self.exploration_matrices)
            chosen(b) ==
                IF Len(latent) = 1 \/ Len(latent) # Len(mats)
                THEN Val(self.exploration_mat)
                ELSE mats[b]
        IN  /\ DOMAIN noise = DOMAIN latent
            /\ \A b \in DOMAIN latent :
                   /\ DOMAIN noise[b] = ActionComponents
                   /\ \A j \in ActionComponents :
                          noise[b][j] =
                              SumOver([l \in LatentFeatures |->
                                          latent[b][l] * chosen(b)[l][j]],
                                      LatentFeatures)

\* get_noise on two latent rows with two pre-sampled matrices that differ
\* from each other, the second also from the base matrix.
C11_Witness ==
    /\ ret.op = "get_noise"
    /\ ret.ok
    /\ Len(Val(ret.args)) = 2
    /\ Len(Val(self.exploration_matrices)) = 2
    /\ Val(self.exploration_matrices)[1] # Val(self.exploration_matrices)[2]
    /\ Val(self.exploration_matrices)[2] # Val(self.exploration_mat)

\* C12: kl_divergence on two bound MultiCategorical distributions raises
\* when their cardinality lists differ, in a value or in length, and
\* otherwise returns, per row, the sum over all sub-spaces of the
\* categorical KL divergences.
C12_KlNeedsSameDims ==
    (/\ ret.op = "kl_divergence"
     /\ self.cls = "MultiCategoricalDistribution"
     /\ Val(ret.args).cls = "MultiCategoricalDistribution") =>
        LET dist_pred == Val(ret.args)
            ps == Val(self.distribution)
            qs == Val(dist_pred.distribution)
        IN  IF Val(self.action_dims) # Val(dist_pred.action_dims)
            THEN ~ret.ok
            ELSE /\ ret.ok
                 /\ Val(ret.val) =
                        [b \in DOMAIN ps[1].logits |->
                            <<"sum", [k \in DOMAIN Val(self.action_dims) |->
                                <<"kl", ps[k].logits[b], qs[k].logits[b]>>]>>]

\* The log-probabilities of actions a under the distribution the instance
\* draws its samples from.
DrawnLogProb(s, a) ==
    CASE IsCategoricalCls(s.cls) ->
             {CatLogProb(Val(SamplingDistribution(s)), a)}
      [] s.cls = "SquashedDiagGaussianDistribution" ->
             {Val(SquashedLogProb(s, a, s.gaussian_actions).val)}
      [] OTHER -> {Val(o.val) : o \in {l \in log_prob(s, a) : l.ok}}

\* C13: get_actions(deterministic) gives mode() when deterministic and
\* sample() otherwise; actions_from_params(params, deterministic) gives what
\* get_actions gives on an instance bound to params; log_prob_from_params
\* returns a pair (a, lp) where a is a sample of the instance bound to
\* params and lp is the log-probability of a under the distribution a was
\* drawn from, and both leave the instance bound to params.
C13_BindThenQuery ==
    /\ (ret.op = "get_actions" /\ ret.ok) =>
           \E o \in IF Val(ret.args) THEN mode(self) ELSE sample(self) :
               SameResult(o)
    /\ (ret.op = "actions_from_params" /\ ret.ok) =>
           /\ SameBinding(self, BoundOnce)
           /\ \E o \in get_actions(BoundOnceWithNoise,
                                   Val(ret.args).deterministic) : SameResult(o)
    /\ (ret.op = "log_prob_from_params" /\ ret.ok) =>
           /\ SameBinding(self, BoundOnce)
           /\ \E o \in sample(BoundOnceWithNoise) :
                  o.ok /\ Val(o.val) = Val(ret.val)[1]
           /\ Val(ret.val)[2] \in DrawnLogProb(self, Val(ret.val)[1])

\* C14 as stated: mode of a bound Bernoulli distribution gives, for each
\* component, 1 when its probability is at least 0.5 (logit >= 0) and 0
\* when it is below 0.5.
C14_ModeRoundsHalfUp ==
    (ret.op = "mode" /\ ret.ok /\ self.cls = "BernoulliDistribution") =>
        \A b \in DOMAIN BoundTo.action_logits :
            \A i \in DOMAIN BoundTo.action_logits[b] :
                Val(ret.val)[b][i] =
                    IF BoundTo.action_logits[b][i] >= 0 THEN 1 ELSE 0

\* C14 amended: mode of a bound Bernoulli distribution gives, for each
\* component, 1 when its probability is above 0.5 (logit > 0) and 0 when it
\* is 0.5 or below; a component of logit 0, probability exactly 0.5, gives 0.
C14_ModeRoundsHalfToEven ==
    (ret.op = "mode" /\ ret.ok /\ self.cls = "BernoulliDistribution") =>
        /\ DOMAIN Val(ret.val) = DOMAIN BoundTo.action_logits
        /\ \A b \in DOMAIN BoundTo.action_logits :
               /\ DOMAIN Val(ret.val)[b] = DOMAIN BoundTo.action_logits[b]
               /\ \A i \in DOMAIN BoundTo.action_logits[b] :
                      Val(ret.val)[b][i] =
                          IF BoundTo.action_logits[b][i] > 0 THEN 1 ELSE 0

\* mode of a Bernoulli distribution with a component of probability exactly
\* 0.5, one above and one below.
C14_Witness ==
    /\ ret.op = "mode"
    /\ ret.ok
    /\ self.cls = "BernoulliDistribution"
    /\ \E b \in DOMAIN BoundTo.action_logits :
           BoundTo.action_logits[b][1] = 0
    /\ \E b \in DOMAIN BoundTo.action_logits :
           \E i \in DOMAIN BoundTo.action_logits[b] :
               BoundTo.action_logits[b][i] > 0
    /\ \E b \in DOMAIN BoundTo.action_logits :
           \E i \in DOMAIN BoundTo.action_logits[b] :
               BoundTo.action_logits[b][i] < 0

\* Chunk k of row b of the bound logits: the dims[k] logits that follow the
\* first dims[1] + ... + dims[k-1] ones.
BoundChunk(k, b) ==
    LET dims == Val(self.action_dims)
        off[j \in DOMAIN dims] == IF j = 1 THEN 0 ELSE off[j - 1] + dims[j - 1]
    IN  [i \in 1..dims[k] |-> BoundTo.action_logits[b][off[k] + i]]

\* C15: a MultiCategorical distribution of cardinalities n_1..n_k accepts
\* logits rows of length n_1 + ... + n_k and rejects any other length; once
\* bound it holds k categoricals, the k-th over the k-th contiguous chunk of
\* each row; log_prob is the sum of the k per-sub-action log-probabilities,
\* and mode and sample give k results per row in the declared order.
C15_SplitsInDeclaredOrder ==
    self.cls = "MultiCategoricalDistribution" =>
        LET dims == Val(self.action_dims)
            rows == DOMAIN BoundTo.action_logits
        IN  /\ ret.op = "proba_distribution" =>
                   (ret.ok <=> Val(ret.args).shape[2] = SeqSum(dims))
            /\ IsBound =>
                   /\ DOMAIN Val(self.distribution) = DOMAIN dims
                   /\ \A k \in DOMAIN dims :
                          Val(self.distribution)[k] =
                              Categorical([b \in rows |-> BoundChunk(k, b)])
            /\ (IsBound /\ ret.op = "log_prob") =>
                   /\ ret.ok
                   /\ Val(ret.val) =
                          [b \in rows |->
                              <<"sum", [k \in DOMAIN dims |->
                                  <<"log_softmax", NormalizeRow(BoundChunk(k, b)),
                                    Val(ret.args)[b][k]>>]>>]
            /\ (IsBound /\ ret.op = "mode") =>
                   /\ ret.ok
                   /\ Val(ret.val) =
                          [b \in rows |->
                              [k \in DOMAIN dims |-> ArgmaxRow(BoundChunk(k, b))]]
            /\ (IsBound /\ ret.op = "sample") =>
                   /\ ret.ok
                   /\ DOMAIN Val(ret.val) = rows
                   /\ \A b \in rows :
                          /\ DOMAIN Val(ret.val)[b] = DOMAIN dims
                          /\ \A k \in DOMAIN dims :
                                 Val(ret.val)[b][k] \in 0..(dims[k] - 1)

\* The mode of a distribution of cardinalities <<1, 2>> whose second chunk
\* prefers its second index: the row's answer is <<0, 1>>.
C15_Witness ==
    /\ self.cls = "MultiCategoricalDistribution"
    /\ Val(self.action_dims) = <<1, 2>>
    /\ ret.op = "mode"
    /\ ret.ok
    /\ \E b \in DOMAIN Val(ret.val) : Val(ret.val)[b] = <<0, 1>>

\* C16: mode of a categorical or masked categorical distribution gives, for
\* each row, an index whose probability under the distribution bound (after
\* masking) is the largest, and the lowest such index when several tie.
C16_ModeIsFirstArgmax ==
    (ret.op = "mode" /\ ret.ok /\ IsCategoricalCls(self.cls)) =>
        /\ IsBound
        /\ LET logits == Val(SamplingDistribution(BoundOnce)).logits
           IN  /\ DOMAIN Val(ret.val) = DOMAIN logits
               /\ \A b \in DOMAIN logits :
                      LET a == Val(ret.val)[b] + 1
                      IN  /\ a \in DOMAIN logits[b]
                          /\ \A j \in DOMAIN logits[b] :
                                 /\ logits[b][j] <= logits[b][a]
                                 /\ j < a => logits[b][j] < logits[b][a]

\* mode of a masked categorical whose two actions tie after masking, and of
\* one whose second action alone is the most probable.
C16_Witness ==
    /\ ret.op = "mode"
    /\ ret.ok
    /\ self.cls \in MaskedClasses
    /\ Len(Val(ret.val)) = 2
    /\ LET logits == Val(SamplingDistribution(self)).logits
       IN  /\ logits[1][1] = logits[1][2]
           /\ logits[2][1] < logits[2][2]

\* C17: every entry of TanhBijector.inverse(y) is atanh of an argument
\* strictly between -1 and 1: 1 - eps when the entry of y is 1 - eps or
\* more, -1 + eps when it is -1 + eps or less, and the entry itself when it
\* lies strictly between the two.
C17_InverseClamps ==
    ret.op = "TanhBijector.inverse" =>
        LET y == Val(ret.args)
            r == Val(ret.val)
        IN  /\ ret.ok
            /\ DOMAIN r = DOMAIN y
            /\ \A b \in DOMAIN y :
                   /\ DOMAIN r[b] = DOMAIN y[b]
                   /\ \A j \in DOMAIN y[b] :
                          /\ r[b][j][1] = "atanh"
                          /\ Less(Num(-1, 0), r[b][j][2])
                          /\ Less(r[b][j][2], Num(1, 0))
                          /\ ~Less(y[b][j], Num(1, -2)) => r[b][j][2] = Num(1, -2)
                          /\ ~Less(Num(-1, 2), y[b][j]) => r[b][j][2] = Num(-1, 2)
                          /\ (Less(Num(-1, 2), y[b][j]) /\ Less(y[b][j], Num(1, -2))) =>
                                 r[b][j][2] = y[b][j]

\* The inverse of a tensor with an entry between 1 - eps and 1 and an entry
\* below -1.
C17_Witness ==
    /\ ret.op = "TanhBijector.inverse"
    /\ Len(Val(ret.args)) = 2
    /\ Val(ret.args)[1][1] = Num(1, -1)
    /\ Val(ret.args)[2][1] = Num(-2, 0)

\* C18: make_proba_distribution leaves the mapping it is given as it was,
\* and a call that follows a returning one with the same action space,
\* use_sde and mapping object returns an instance of the same class.
C18_KwargsLeftUnchanged ==
    [][ret'.op = "make_proba_distribution" =>
          /\ dist_kwargs' = Val(ret'.args).dist_kwargs
          /\ (/\ ret.op = "make_proba_distribution"
              /\ ret.ok
              /\ Val(ret'.args).action_space = Val(ret.args).action_space
              /\ Val(ret'.args).use_sde = Val(ret.args).use_sde
              /\ Val(ret'.args).dist_kwargs = dist_kwargs) =>
                 (ret'.ok /\ self'.cls = self.cls)]_vars

\* C19: once a masked categorical is bound, in every row that has an
\* unflagged action each flagged action is strictly less probable than each
\* unflagged one, and mode() gives an unflagged action for that row,
\* whatever the raw logits.
C19_ModeIsUnflagged ==
    (IsBound /\ self.cls \in MaskedClasses /\ ~IsNone(SamplingDistribution(self))) =>
        LET logits == Val(SamplingDistribution(self)).logits
        IN  /\ DOMAIN logits = DOMAIN BoundTo.action_logits
            /\ \A b \in DOMAIN logits :
                   /\ \A a \in ActionIdx, u \in ActionIdx :
                          (Flagged(b, a) /\ ~Flagged(b, u)) =>
                              logits[b][a + 1] < logits[b][u + 1]
                   /\ (ret.op = "mode" /\ \E u \in ActionIdx : ~Flagged(b, u)) =>
                          /\ ret.ok
                          /\ ~Flagged(b, Val(ret.val)[b])

\* mode of a masked categorical bound to two rows: in one the flagged action
\* has the larger raw logit and mode gives the other action; in the other
\* every action is flagged.
C19_Witness ==
    /\ IsBound
    /\ self.cls \in MaskedClasses
    /\ ret.op = "mode"
    /\ ret.ok
    /\ Len(BoundTo.action_logits) = 2
    /\ \E b \in 1..2 :
           /\ Flagged(b, 1)
           /\ ~Flagged(b, 0)
           /\ BoundTo.action_logits[b][2] > BoundTo.action_logits[b][1]
           /\ Val(ret.val)[b] = 0
    /\ \E b \in 1..2 : \A a \in ActionIdx : Flagged(b, a)

\* C20: a proba_distribution call on a masked categorical with obs = None
\* raises and leaves the instance exactly as it was, bound or not.
C20_ObsNoneChangesNothing ==
    [][(/\ ret'.op = "proba_distribution"
        /\ self.cls \in MaskedClasses
        /\ Val(ret'.args).obs_none) =>
           (~ret'.ok /\ ret'.exc = "Exception" /\ self' = self)]_vars

\* A bound masked categorical was bound again with obs = None.
C20_Witness ==
    /\ self.cls \in MaskedClasses
    /\ ret.op = "proba_distribution"
    /\ Val(ret.args).obs_none
    /\ ~ret.ok
    /\ IsBound
    /\ ~IsNone(SamplingDistribution(self))

====
